---- MODULE Spec2Model ----
(***************************************************************************)
(* Model of src/app.py: the parse loop that turns G-code/MPF text lines    *)
(* into the sample table `df`, the summary metrics, the layer-range slice  *)
(* and the colour series of the 3D visualizer.                             *)
(*                                                                         *)
(* Representation.                                                         *)
(*  - A text line is a sequence of one-character strings.                  *)
(*  - A float is a fixed-point integer in units of 10^-FracDigits.         *)
(*  - An optional float (None in `vals`, NaN in the DataFrame) is a set    *)
(*    with at most one element: {} is None/NaN, {v} is the value v.  So    *)
(*    an explicit zero {0} differs from unset {}, and NaN propagates       *)
(*    through arithmetic written as a set comprehension.                   *)
(*  - A norm sqrt(n) is represented by its radicand n (exact).             *)
(***************************************************************************)
EXTENDS Integers, Sequences, FiniteSets, TLC

\* ---------------------------------------------------------------- bounds
\* Longest input (number of lines) the model explores.
MaxLines == 3
\* Fractional digits kept by the fixed-point representation of floats.
FracDigits == 2

RECURSIVE Pow10(_)
Pow10(n) == IF n = 0 THEN 1 ELSE 10 * Pow10(n - 1)

Scale == Pow10(FracDigits)

\* ------------------------------------------------------- text primitives
Digits == <<"0", "1", "2", "3", "4", "5", "6", "7", "8", "9">>

IsDigit(c) == \E k \in 1..10 : Digits[k] = c

DigitVal(c) == (CHOOSE k \in 1..10 : Digits[k] = c) - 1

\* Python's \s on the characters the inputs use.
IsSpace(c) == c \in {" ", "\t"}

\* int(...) / the integer read off a run of decimal digits.
RECURSIVE ToInt(_)
ToInt(ds) ==
    IF ds = <<>> THEN 0
    ELSE 10 * ToInt(SubSeq(ds, 1, Len(ds) - 1)) + DigitVal(ds[Len(ds)])

\* Python's `pat in line`.
Contains(line, pat) ==
    \E k \in 0..(Len(line) - Len(pat)) : SubSeq(line, k + 1, k + Len(pat)) = pat

\* Length of the maximal run of digits (of whitespace) that starts at p: what
\* a greedy [0-9]* (\s*) consumes there.
DigitRun(line, p) ==
    CHOOSE n \in 0..Len(line) :
        /\ p + n - 1 <= Len(line)
        /\ \A k \in p..(p + n - 1) : IsDigit(line[k])
        /\ (p + n > Len(line) \/ ~IsDigit(line[p + n]))

SpaceRun(line, p) ==
    CHOOSE n \in 0..Len(line) :
        /\ p + n - 1 <= Len(line)
        /\ \A k \in p..(p + n - 1) : IsSpace(line[k])
        /\ (p + n > Len(line) \/ ~IsSpace(line[p + n]))

\* ------------------------------------------------------ program literals
\* ";-----------------------LAYER" (line 63): ';', 23 dashes, "LAYER".
LayerWord == <<"L", "A", "Y", "E", "R">>

LayerDelim == <<";">> \o [k \in 1..23 |-> "-"] \o LayerWord

G1 == <<"G", "1">>

Axes == <<"X", "Y", "Z", "A", "B", "C", "E">>

AxisSet == {Axes[k] : k \in 1..Len(Axes)}

\* t, layer_markers, current_layer = 0, 0, -1 (line 61): the unset layer.
Unset == -1

\* None in `vals`, NaN in the DataFrame.
NaN == {}

\* ------------------------------------------------------------ the regexes
\* re.search(r"LAYER\s+(\d+)", line): the leftmost position where "LAYER",
\* one or more whitespace characters and one or more digits follow one
\* another; the result is int(m.group(1)) as an optional ({} = no match).
LayerMatchAt(line, p) ==
    /\ p + 4 <= Len(line)
    /\ SubSeq(line, p, p + 4) = LayerWord
    /\ SpaceRun(line, p + 5) >= 1
    /\ DigitRun(line, p + 5 + SpaceRun(line, p + 5)) >= 1

LayerSearch(line) ==
    LET P == {p \in 1..Len(line) : LayerMatchAt(line, p)}
    IN  IF P = {} THEN {}
        ELSE LET p == CHOOSE q \in P : \A r \in P : q <= r
                 a == p + 5 + SpaceRun(line, p + 5)
             IN  {ToInt(SubSeq(line, a, a + DigitRun(line, a) - 1))}

\* float(text) of a matched literal: sign, integer digits, fraction digits.
\* Fraction digits beyond FracDigits are cut off; the input lines below have
\* at most two.
ParseFloat(neg, ip, fp) ==
    LET f == IF Len(fp) <= FracDigits
             THEN ToInt(fp) * Pow10(FracDigits - Len(fp))
             ELSE ToInt(SubSeq(fp, 1, FracDigits))
        m == ToInt(ip) * Scale + f
    IN  IF neg THEN 0 - m ELSE m

\* The group ([-+]?[0-9]*\.?[0-9]+) matched at position q, as the regex
\* engine matches it: the sign is taken when present, then the maximal digit
\* run, then a '.' only when a digit follows it (otherwise the engine backs
\* off the '.' and ends the match on the digit run).  {} when nothing matches.
NumberAt(line, q) ==
    LET s  == IF q <= Len(line) /\ line[q] \in {"+", "-"} THEN 1 ELSE 0
        a  == q + s
        n1 == DigitRun(line, a)
        b  == a + n1
        dot == b <= Len(line) /\ line[b] = "."
        n2 == IF dot THEN DigitRun(line, b + 1) ELSE 0
        neg == s = 1 /\ line[q] = "-"
    IN  IF dot /\ n2 > 0
        THEN {ParseFloat(neg, SubSeq(line, a, b - 1), SubSeq(line, b + 1, b + n2))}
        ELSE IF n1 > 0
        THEN {ParseFloat(neg, SubSeq(line, a, b - 1), <<>>)}
        ELSE {}

\* Faulty variant of AxisSearch: the rightmost match instead of the leftmost.
AxisSearchLast(ax, line) ==
    LET P == {p \in 1..Len(line) : line[p] = ax /\ NumberAt(line, p + 1) # {}}
    IN  IF P = {} THEN NaN
        ELSE NumberAt(line, (CHOOSE q \in P : \A r \in P : q >= r) + 1)

\* re.search(fr"{ax}([-+]?[0-9]*\.?[0-9]+)", line) and float(m.group(1)):
\* the leftmost position where the letter is followed by a number.
AxisSearch(ax, line) ==
    LET P == {p \in 1..Len(line) : line[p] = ax /\ NumberAt(line, p + 1) # {}}
    IN  IF P = {} THEN NaN
        ELSE NumberAt(line, (CHOOSE q \in P : \A r \in P : q <= r) + 1)

\* ----------------------------------------------------------- input lines
\* The texts the inputs are drawn from.  Each is written out character by
\* character; the comment gives the text.
\* G1 X1.5 Y-2.25 Z0
LineExample ==
    <<"G", "1", " ", "X", "1", ".", "5", " ", "Y", "-", "2", ".", "2", "5", " ", "Z", "0">>

\* ;-----------------------LAYER<TAB>0 G1 X0 Y0 Z0 E1
LineOrigin ==
    LayerDelim \o <<"\t", "0", " ", "G", "1", " ", "X", "0", " ", "Y", "0", " ", "Z", "0", " ", "E", "1">>

\* G1 X1 Y1 E.5
LineNoZ ==
    <<"G", "1", " ", "X", "1", " ", "Y", "1", " ", "E", ".", "5">>

\* LAYER 2 G1 X- X7.5.3 X8 Y-.5 Z+1.
LineTwice ==
    <<"L", "A", "Y", "E", "R", " ", "2", " ", "G", "1", " ", "X", "-", " ",
      "X", "7", ".", "5", ".", "3", " ", "X", "8", " ", "Y", "-", ".", "5", " ",
      "Z", "+", "1", ".">>

\* G0 X9 E7
LineOther ==
    <<"G", "0", " ", "X", "9", " ", "E", "7">>

\* ;-----------------------LAYER 2
LineMarker2 ==
    LayerDelim \o <<" ", "2">>

\* ;-----------------------LAYER
LineMarkerNoId ==
    LayerDelim

\* ;-----------------------LAYER 1 G1 X3 Y4 Z0 E2
LineMarkerMotion ==
    LayerDelim \o <<" ", "1", " ", "G", "1", " ", "X", "3", " ", "Y", "4", " ", "Z", "0", " ", "E", "2">>

Pool ==
    {LineExample,
     LineOrigin,
     LineNoZ,
     LineTwice,
     LineOther,
     LineMarker2,
     LineMarkerNoId,
     LineMarkerMotion}

\* ------------------------------------------------------------------ state
VARIABLES
    lines,          \* the input text lines (lines 35, 45, 56)
    pc,             \* position in the script
    i,              \* index of the line the `for` loop reads next
    t,              \* line 61
    layer_markers,  \* line 61
    current_layer,  \* line 61
    data,           \* line 60, one record per appended row
    df,             \* line 77
    total_steps,    \* line 80
    unique_layers,  \* line 81
    total_layers,   \* line 82
    bbox,           \* line 83
    lengths,        \* line 84
    volume_m3,      \* line 85
    layer_range,    \* line 116
    df_slice,       \* line 122
    df3,            \* line 123
    vis_mode,       \* line 107
    color           \* lines 126-133

vars ==
    <<lines, pc, i, t, layer_markers, current_layer, data, df, total_steps,
      unique_layers, total_layers, bbox, lengths, volume_m3, layer_range,
      df_slice, df3, vis_mode, color>>

parseVars == <<t, layer_markers, current_layer, data>>

summaryVars ==
    <<df, total_steps, unique_layers, total_layers, bbox, lengths, volume_m3>>

viewVars == <<layer_range, df_slice, df3, vis_mode, color>>

\* ------------------------------------------------------------- parse loop
\* `";-----------------------LAYER" in line` (line 63).
IsMarker(line) == Contains(line, LayerDelim)

\* Faulty variant of IsMotion: any 'G' command counts as a motion line.
IsMotionG(line) == Contains(line, <<"G">>)

\* `"G1" in line` (line 67).
IsMotion(line) == Contains(line, G1)

\* Faulty variant of MarkerCount: counts only markers that carry an id.
MarkerCountOnId(line, n) ==
    IF IsMarker(line) /\ LayerSearch(line) # {} THEN n + 1 ELSE n

\* layer_markers after lines 63-64.
MarkerCount(line, n) == IF IsMarker(line) THEN n + 1 ELSE n

\* current_layer after lines 63-66.
LayerAfter(line, cur) ==
    IF IsMarker(line) /\ LayerSearch(line) # {}
    THEN CHOOSE v \in LayerSearch(line) : TRUE
    ELSE cur

\* Faulty variant of SampleLayer: the row is built before the marker update.
SampleLayerStale(line, cur) == cur

\* The current_layer that line 73 appends: lines 63-66 have run by then.
SampleLayer(line, cur) == LayerAfter(line, cur)

\* The row appended by lines 68-75.
Sample(line, ts, cur) ==
    [TimeStep |-> ts,
     X |-> AxisSearch("X", line),
     Y |-> AxisSearch("Y", line),
     Z |-> AxisSearch("Z", line),
     A |-> AxisSearch("A", line),
     B |-> AxisSearch("B", line),
     C |-> AxisSearch("C", line),
     E |-> AxisSearch("E", line),
     Layer |-> SampleLayer(line, cur)]

\* Faulty variant of NextT: t advances on every line.
NextTEveryLine(line, ts) == ts + 1

\* t after the line: `t += 1` (line 76) runs inside `if "G1" in line`.
NextT(line, ts) == IF IsMotion(line) THEN ts + 1 ELSE ts

Inputs == UNION {[1..n -> Pool] : n \in 0..MaxLines}

Init ==
    /\ lines \in Inputs
    /\ pc = "parse"
    /\ i = 1
    /\ t = 0
    /\ layer_markers = 0
    /\ current_layer = Unset
    /\ data = <<>>
    /\ df = <<>>
    /\ total_steps = 0
    /\ unique_layers = <<>>
    /\ total_layers = 0
    /\ bbox = <<>>
    /\ lengths = <<>>
    /\ volume_m3 = NaN
    /\ layer_range = <<>>
    /\ df_slice = <<>>
    /\ df3 = <<>>
    /\ vis_mode = ""
    /\ color = <<>>

\* One iteration of `for line in lines` (lines 62-76).
ParseLine ==
    /\ pc = "parse"
    /\ i <= Len(lines)
    /\ layer_markers' = MarkerCount(lines[i], layer_markers)
    /\ current_layer' = LayerAfter(lines[i], current_layer)
    /\ data' = IF IsMotion(lines[i])
               THEN Append(data, Sample(lines[i], t, current_layer))
               ELSE data
    /\ t' = NextT(lines[i], t)
    /\ i' = i + 1
    /\ UNCHANGED <<lines, pc, summaryVars, viewVars>>

\* -------------------------------------------------------- summary metrics
\* pandas/numpy arithmetic on optional values: NaN in, NaN out.
Sub(a, b) == {x - y : x \in a, y \in b}

\* The non-NaN values of a column (what skipna=True leaves).
ColValues(frame, ax) == UNION {frame[k][ax] : k \in 1..Len(frame)}

\* Faulty variant of ColMin: 0 for a column without values.
ColMinZero(frame, ax) ==
    LET V == ColValues(frame, ax)
    IN  IF V = {} THEN {0} ELSE {CHOOSE m \in V : \A v \in V : m <= v}

\* df[ax].min(): the least non-NaN value, NaN when there is none.
ColMin(frame, ax) ==
    LET V == ColValues(frame, ax)
    IN  IF V = {} THEN NaN ELSE {CHOOSE m \in V : \A v \in V : m <= v}

\* df[ax].max().
ColMax(frame, ax) ==
    LET V == ColValues(frame, ax)
    IN  IF V = {} THEN NaN ELSE {CHOOSE m \in V : \A v \in V : m >= v}

\* sorted(...) of a set of integers.
RECURSIVE Sorted(_)
Sorted(S) ==
    IF S = {} THEN <<>>
    ELSE LET m == CHOOSE x \in S : \A y \in S : x <= y
         IN  <<m>> \o Sorted(S \ {m})

\* sorted(df['Layer'].dropna().unique().astype(int)) (line 81).  The Layer
\* column holds integers only (the unset layer is the integer -1), so
\* dropna() removes nothing.
UniqueLayers(frame) == Sorted({frame[k].Layer : k \in 1..Len(frame)})

XYZ == {"X", "Y", "Z"}

\* bbox (line 83).
BBox(frame) == [ax \in XYZ |-> <<ColMin(frame, ax), ColMax(frame, ax)>>]

\* lengths (line 84).
Lengths(bb) == [ax \in XYZ |-> Sub(bb[ax][2], bb[ax][1])]

\* volume_m3 (line 85): the product of the three lengths, each divided by
\* 1000.  The product is kept by its three factors (fixed-point lengths in
\* mm), which TLC's 32-bit integers can hold; NaN if a factor is NaN.
Volume(len) ==
    {<<x, y, z>> : x \in len["X"], y \in len["Y"], z \in len["Z"]}

\* Lines 77-85, after the loop has read every line.
Summary ==
    /\ pc = "parse"
    /\ i > Len(lines)
    /\ df' = data
    /\ total_steps' = Len(data)
    /\ unique_layers' = UniqueLayers(data)
    /\ total_layers' = Len(UniqueLayers(data))
    /\ bbox' = BBox(data)
    /\ lengths' = Lengths(BBox(data))
    /\ volume_m3' = Volume(Lengths(BBox(data)))
    /\ pc' = "slider"
    /\ UNCHANGED <<lines, i, parseVars, viewVars>>

\* ------------------------------------------------------------ layer slice
\* min_l, max_l (lines 114-115).
MinL == IF unique_layers # <<>> THEN unique_layers[1] ELSE 0

MaxL == IF unique_layers # <<>> THEN unique_layers[Len(unique_layers)] ELSE 0

\* df[(df['Layer'] >= lo) & (df['Layer'] <= hi)] (line 122).
LayerSlice(frame, lo, hi) ==
    SelectSeq(frame, LAMBDA s : s.Layer >= lo /\ s.Layer <= hi)

\* .dropna(subset=['X','Y','Z']) (line 123).
DropNaXYZ(frame) ==
    SelectSeq(frame, LAMBDA s : s.X # NaN /\ s.Y # NaN /\ s.Z # NaN)

\* .sort_values('Time Step') (line 123): insertion of each row in turn.
RECURSIVE SortByTimeStep(_)
SortByTimeStep(frame) ==
    IF frame = <<>> THEN <<>>
    ELSE LET r    == frame[Len(frame)]
             rest == SortByTimeStep(SubSeq(frame, 1, Len(frame) - 1))
         IN  SelectSeq(rest, LAMBDA s : s.TimeStep <= r.TimeStep)
             \o <<r>>
             \o SelectSeq(rest, LAMBDA s : s.TimeStep > r.TimeStep)

\* Lines 114-123.  The slider returns any (lo, hi) with
\* min_l <= lo <= hi <= max_l; its default is (min_l, max_l).
SliceLayerRange ==
    /\ pc = "slider"
    /\ \E lo \in MinL..MaxL : \E hi \in lo..MaxL :
          /\ layer_range' = <<lo, hi>>
          /\ df_slice' = LayerSlice(df, lo, hi)
          /\ df3' = SortByTimeStep(DropNaXYZ(LayerSlice(df, lo, hi)))
    /\ pc' = "color"
    /\ UNCHANGED <<lines, i, parseVars, summaryVars, vis_mode, color>>

\* st.slider(..., min_l, max_l, ...) with min_l = max_l (line 116): whether
\* the call returns (min_l, max_l), as SliceLayerRange has it, or raises
\* depends on the Streamlit release, which the repository does not pin.
\* Both outcomes are modelled; this is the one where the script stops.
SliderRejectsRange ==
    /\ pc = "slider"
    /\ MinL = MaxL
    /\ pc' = "slider_error"
    /\ UNCHANGED <<lines, i, parseVars, summaryVars, viewVars>>

\* ---------------------------------------------------------- colour series
\* df3['E'].diff(): NaN for the first row, e[k] - e[k-1] after it.
Diff(col) ==
    [k \in 1..Len(col) |-> IF k = 1 THEN NaN ELSE Sub(col[k], col[k - 1])]

\* .fillna(0).
FillNa0(col) ==
    [k \in 1..Len(col) |-> IF col[k] = NaN THEN {0} ELSE col[k]]

\* df3['E'].diff().fillna(0) (line 127).
ExtrusionRate(frame) ==
    FillNa0(Diff([k \in 1..Len(frame) |-> frame[k].E]))

\* The value of a defined optional.
Val(o) == CHOOSE v \in o : TRUE

\* np.linalg.norm(np.diff(coords, axis=0), axis=1) (lines 129-130): one
\* entry per pair of consecutive rows, none for fewer than two rows.  Each
\* norm is given by its radicand.
NormDiff(frame) ==
    [k \in 1..(IF Len(frame) = 0 THEN 0 ELSE Len(frame) - 1) |->
        LET dx == Val(frame[k + 1].X) - Val(frame[k].X)
            dy == Val(frame[k + 1].Y) - Val(frame[k].Y)
            dz == Val(frame[k + 1].Z) - Val(frame[k].Z)
        IN  dx * dx + dy * dy + dz * dz]

\* np.concatenate([[0], d]) (line 131).
Displacement(frame) == <<0>> \o NormDiff(frame)

\* df3.groupby('Layer')['Time Step'].transform('mean') (line 133): the mean
\* of a row's layer group, as <<sum, count>>.
LayerTime(frame) ==
    [k \in 1..Len(frame) |->
        LET G == {j \in 1..Len(frame) : frame[j].Layer = frame[k].Layer}
            RECURSIVE Sum(_)
            Sum(S) == IF S = {} THEN 0
                      ELSE LET j == CHOOSE x \in S : TRUE
                           IN  frame[j].TimeStep + Sum(S \ {j})
        IN  <<Sum(G), Cardinality(G)>>]

\* Selecting a mode fixes vis_mode (line 107); lines 126-133 then build the
\* colour series of that mode.
ColorLayer ==
    /\ pc = "color"
    /\ vis_mode' = "Layer"
    /\ color' = [k \in 1..Len(df3) |-> df3[k].Layer]
    /\ pc' = "done"
    /\ UNCHANGED <<lines, i, parseVars, summaryVars, layer_range, df_slice, df3>>

\* pd.DataFrame(data) (line 77) gives a column float64 dtype, None stored as
\* NaN, when some row has a float, and object dtype, None kept, when every
\* row has None (or there is no row).
IsObjectColumn(frame, ax) == \A k \in 1..Len(frame) : frame[k][ax] = NaN

\* Series.diff() subtracts the shifted column elementwise; on an object
\* column that is None - None, a TypeError, as soon as there are two rows.
\* Slicing and dropna keep the dtype the column has in df.
ColorExtrusionRate ==
    /\ pc = "color"
    /\ vis_mode' = "Extrusion Rate"
    /\ IF IsObjectColumn(df, "E") /\ Len(df3) >= 2
       THEN color' = color /\ pc' = "type_error"
       ELSE color' = ExtrusionRate(df3) /\ pc' = "done"
    /\ UNCHANGED <<lines, i, parseVars, summaryVars, layer_range, df_slice, df3>>

\* pd.Series(values, index=df3.index) (line 131) raises ValueError when the
\* lengths differ; the script stops there and `color` is never bound.
ColorDistance ==
    /\ pc = "color"
    /\ vis_mode' = "Distance"
    /\ IF Len(Displacement(df3)) = Len(df3)
       THEN color' = Displacement(df3) /\ pc' = "done"
       ELSE color' = color /\ pc' = "series_error"
    /\ UNCHANGED <<lines, i, parseVars, summaryVars, layer_range, df_slice, df3>>

ColorLayerTime ==
    /\ pc = "color"
    /\ vis_mode' = "Layer Time"
    /\ color' = LayerTime(df3)
    /\ pc' = "done"
    /\ UNCHANGED <<lines, i, parseVars, summaryVars, layer_range, df_slice, df3>>

Next ==
    \/ ParseLine
    \/ Summary
    \/ SliceLayerRange
    \/ SliderRejectsRange
    \/ ColorLayer
    \/ ColorExtrusionRate
    \/ ColorDistance
    \/ ColorLayerTime

Spec == Init /\ [][Next]_vars

\* ================================================================ claims
\* The statements below are written against the input text itself, without
\* the operators of the parse loop.

\* The text `pat` occurs in `line`.
HasText(line, pat) ==
    \E k \in 1..Len(line) :
        /\ k + Len(pat) - 1 <= Len(line)
        /\ \A j \in 1..Len(pat) : line[k + j - 1] = pat[j]

\* Number of lines the loop has processed so far.
Processed == i - 1

\* Among the first n lines: those containing 'G1', those containing the
\* layer delimiter, and the latter from which an id can be extracted.
MotionLines(n) == {j \in 1..n : HasText(lines[j], G1)}

MarkerLines(n) == {j \in 1..n : HasText(lines[j], LayerDelim)}

IdLines(n) == {j \in MarkerLines(n) : LayerSearch(lines[j]) # {}}

\* The id of the most recent marker line with an id among the first n lines.
LastId(n) ==
    IF IdLines(n) = {} THEN Unset
    ELSE Val(LayerSearch(lines[CHOOSE j \in IdLines(n) : \A m \in IdLines(n) : m <= j]))

\* The line that produced the k-th sample: the k-th line containing 'G1'.
LineOfSample(k) ==
    CHOOSE j \in MotionLines(Len(lines)) : Cardinality(MotionLines(j)) = k

\* C1: after every prefix of the input processed by the parse loop, the
\* Time Step values of the samples are exactly 0, 1, ..., n-1 in append
\* order, n being the number of processed lines that contain 'G1'; lines
\* without 'G1' append no sample and do not advance t.
C1_TimeSteps ==
    LET n == Cardinality(MotionLines(Processed))
    IN  /\ Len(data) = n
        /\ t = n
        /\ \A k \in 1..n : data[k].TimeStep = k - 1

\* C1 witness: three lines processed, one of them without 'G1' lying
\* between two motion lines.
C1_Witness ==
    /\ Processed = 3
    /\ MotionLines(3) = {1, 3}
    /\ Len(data) = 2
    /\ data[2].TimeStep = 1

\* C2: every sample's Layer is the id of the most recent marker line with an
\* extractable id at or before the sample's own line, and -1 when there is
\* none; a line that is both marker and motion line gives its sample the new
\* id; ids are recorded as they come, smaller or repeated ones included.
\* Stated for every prefix the loop has processed; `data` does not change
\* after the loop.
C2_SampleLayer ==
    pc = "parse"
    => \A k \in 1..Len(data) : data[k].Layer = LastId(LineOfSample(k))

\* C2 witness: a marker with id 2, then a line that is both a marker with
\* the smaller id 1 and a motion line; its sample carries 1.
C2_Witness ==
    /\ pc = "parse"
    /\ Processed >= 2
    /\ lines[1] = LineMarker2
    /\ lines[2] = LineMarkerMotion
    /\ Len(data) >= 1
    /\ data[1].Layer = 1

\* C3: layer_markers is the number of processed lines containing the layer
\* delimiter, whether or not an id can be extracted; and when the line just
\* processed is a marker line whose extraction fails, current_layer is the
\* value it had before that line.
C3_MarkerCount ==
    /\ layer_markers = Cardinality(MarkerLines(Processed))
    /\ (/\ Processed >= 1
        /\ Processed \in MarkerLines(Processed)
        /\ LayerSearch(lines[Processed]) = {})
       => current_layer = LastId(Processed - 1)

\* C3 witness: a marker with id 2 followed by a marker without id; both are
\* counted and current_layer is still 2.
C3_Witness ==
    /\ Processed = 2
    /\ lines[1] = LineMarker2
    /\ lines[2] = LineMarkerNoId
    /\ layer_markers = 2
    /\ current_layer = 2

\* C4 as claimed: an input with no line containing 'G1' (zero lines included)
\* yields an empty sample sequence and layer_markers = 0.
C4_Original ==
    (pc # "parse" /\ MotionLines(Len(lines)) = {})
    => (df = <<>> /\ layer_markers = 0)

\* C4 amended: an input with no line containing 'G1' (zero lines included)
\* yields an empty sample sequence and total_steps = 0; layer_markers is
\* then the number of lines containing the layer delimiter, so it is 0 for
\* zero lines and whenever no line contains the delimiter.
C4_EmptyInput ==
    (pc # "parse" /\ MotionLines(Len(lines)) = {})
    => /\ df = <<>>
       /\ total_steps = 0
       /\ layer_markers = Cardinality(MarkerLines(Len(lines)))
       /\ (MarkerLines(Len(lines)) = {} => layer_markers = 0)

\* C4 witness: a parsed input of marker lines and other text, no 'G1'.
C4_Witness ==
    /\ pc # "parse"
    /\ Len(lines) = 3
    /\ MotionLines(3) = {}
    /\ MarkerLines(3) # {}
    /\ MarkerLines(3) # {1, 2, 3}
    /\ df = <<>>
    /\ layer_markers >= 1

\* C5 as claimed: for every range [lo, hi] the slider can return, df_slice
\* holds exactly the samples whose layer is defined and lies in [lo, hi];
\* samples with the unset layer -1 are in no slice.
C5_Claim ==
    pc \in {"color", "done", "series_error"}
    => df_slice = SelectSeq(df, LAMBDA s : /\ s.Layer # Unset
                                           /\ layer_range[1] <= s.Layer
                                           /\ s.Layer <= layer_range[2])

\* C6 as claimed: total_layers is the number of distinct defined layer
\* values among the samples, the unset value -1 not counted.
C6_Claim ==
    pc # "parse"
    => total_layers = Cardinality({df[k].Layer : k \in 1..Len(df)} \ {Unset})

\* C8: once the summary is computed, a dataset without samples has
\* total_steps = 0, and for each of X, Y, Z that no sample has a value for
\* (all three when there is no sample) the (min, max) pair and the length
\* are NaN, not 0, and so is the volume.
C8_Undefined ==
    pc # "parse"
    => /\ (df = <<>> => total_steps = 0)
       /\ \A ax \in XYZ :
             (\A k \in 1..Len(df) : df[k][ax] = {})
             => /\ bbox[ax] = <<{}, {}>>
                /\ bbox[ax] # <<{0}, {0}>>
                /\ lengths[ax] = {}
                /\ lengths[ax] # {0}
                /\ volume_m3 = {}

\* C8 witness: the summary of an input whose lines gave no sample.
C8_Witness ==
    /\ pc = "slider"
    /\ Len(lines) = 3
    /\ df = <<>>
    /\ total_steps = 0
    /\ volume_m3 = {}

\* The selected samples that have X, Y and Z, in the order of the slice
\* (which is time-step order).
Retained == SelectSeq(df_slice, LAMBDA s : \A ax \in XYZ : s[ax] # {})

\* C9 as claimed: in Extrusion Rate mode the series is built, with one
\* value per sample of the selected sequence, none dropped: 0 for the first
\* sample and wherever E is unset, otherwise E minus the E of the preceding
\* sample.
C9_Claim ==
    (vis_mode = "Extrusion Rate" /\ pc \in {"done", "type_error"})
    => /\ pc = "done"
       /\ Len(color) = Len(df_slice)
       /\ \A k \in 1..Len(df_slice) :
             IF k = 1 \/ df_slice[k].E = {}
             THEN color[k] = {0}
             ELSE df_slice[k - 1].E # {}
                  => color[k] = {Val(df_slice[k].E) - Val(df_slice[k - 1].E)}

\* Squared Euclidean distance of two samples with defined positions.
DistSq(a, b) ==
    (Val(b.X) - Val(a.X)) * (Val(b.X) - Val(a.X))
    + (Val(b.Y) - Val(a.Y)) * (Val(b.Y) - Val(a.Y))
    + (Val(b.Z) - Val(a.Z)) * (Val(b.Z) - Val(a.Z))

\* C10 as claimed: in Distance mode the displacement sequence is built, with
\* exactly one entry per retained sample (none for none): the first is 0 and
\* entry k > 1 is the distance between retained positions k-1 and k (here:
\* its square).
C10_Claim ==
    (vis_mode = "Distance" /\ pc \in {"done", "series_error"})
    => /\ pc = "done"
       /\ Len(color) = Len(Retained)
       /\ \A k \in 1..Len(Retained) :
             color[k] = IF k = 1 THEN 0 ELSE DistSq(Retained[k - 1], Retained[k])

\* A text of the form: optional sign, digits, optional '.', digits, ending
\* in a digit (an optionally signed decimal number).
IsDecimal(s) ==
    LET sg   == IF s # <<>> /\ s[1] \in {"+", "-"} THEN 1 ELSE 0
        body == SubSeq(s, sg + 1, Len(s))
    IN  /\ body # <<>>
        /\ \A k \in 1..Len(body) : IsDigit(body[k]) \/ body[k] = "."
        /\ Cardinality({k \in 1..Len(body) : body[k] = "."}) <= 1
        /\ IsDigit(body[Len(body)])

\* The number a decimal text denotes, digit by digit from its place value.
RECURSIVE PlaceSum(_, _, _)
PlaceSum(body, dot, k) ==
    IF k = 0 THEN 0
    ELSE PlaceSum(body, dot, k - 1)
         + (IF k < dot THEN DigitVal(body[k]) * Pow10(dot - 1 - k) * Scale
            ELSE IF k > dot THEN (DigitVal(body[k]) * Scale) \div Pow10(k - dot)
            ELSE 0)

DecimalValue(s) ==
    LET sg   == IF s[1] \in {"+", "-"} THEN 1 ELSE 0
        body == SubSeq(s, sg + 1, Len(s))
        D    == {k \in 1..Len(body) : body[k] = "."}
        dot  == IF D = {} THEN Len(body) + 1 ELSE CHOOSE k \in D : TRUE
        m    == PlaceSum(body, dot, Len(body))
    IN  IF s[1] = "-" THEN 0 - m ELSE m

\* The number following the leftmost occurrence of the letter that is
\* immediately followed by a decimal number (the longest one starting
\* there); {} when the line has no such occurrence.
AxisValue(ax, line) ==
    LET Num(p) == {n \in 1..(Len(line) - p) : IsDecimal(SubSeq(line, p + 1, p + n))}
        Occ    == {p \in 1..Len(line) : line[p] = ax /\ Num(p) # {}}
    IN  IF Occ = {} THEN {}
        ELSE LET p == CHOOSE q \in Occ : \A r \in Occ : q <= r
                 n == CHOOSE m \in Num(p) : \A r \in Num(p) : r <= m
             IN  {DecimalValue(SubSeq(line, p + 1, p + n))}

\* C7: for every sample and each of the seven axis letters, the sample's
\* value is the number following the leftmost occurrence of the letter that
\* is immediately followed by an optionally signed decimal number, and unset
\* when there is none; an explicit zero is the value 0, not unset.  The line
\* 'G1 X1.5 Y-2.25 Z0' gives X=1.5, Y=-2.25, Z=0 and A, B, C, E unset.
\* Stated for every prefix the loop has processed; `data` does not change
\* after the loop.
C7_AxisValues ==
    pc = "parse"
    => \A k \in 1..Len(data) :
          LET line == lines[LineOfSample(k)]
          IN  /\ \A ax \in AxisSet : data[k][ax] = AxisValue(ax, line)
              /\ line = LineExample
                 => /\ data[k].X = {(3 * Scale) \div 2}
                    /\ data[k].Y = {0 - ((9 * Scale) \div 4)}
                    /\ data[k].Z = {0}
                    /\ data[k].Z # {}
                    /\ \A ax \in {"A", "B", "C", "E"} : data[k][ax] = {}

\* C7 witness: the example line and a line that repeats the letter X (once
\* without a number, then with 7.5.3, then with 8) have both been parsed.
C7_Witness ==
    /\ pc = "parse"
    /\ Processed = 2
    /\ lines[1] = LineExample
    /\ lines[2] = LineTwice
    /\ Len(data) = 2
    /\ data[1].Z = {0}
    /\ data[1].E = {}
    /\ data[2].X = {(15 * Scale) \div 2}

====
